---- MODULE Spec2Model ----
(***************************************************************************)
(* Verification model of the Universal Corpus tooling.                     *)
(*                                                                         *)
(* Part I  : the hierarchical document engine (text -> lines -> section    *)
(*           tree -> entries; exact rebuild; split into fragments plus a   *)
(*           manifest; concatenate from the store alone).                  *)
(* Part II : the CorpusManager of corpus_manager.py (loading pattern files *)
(*           into the id -> Pattern dictionary, exporting one pattern).    *)
(* Part III: the pattern API and its repository (api.py, database.py):     *)
(*           create, full and partial update, delete, statistics, seeding; *)
(*           and the compact format of compact_format.py.                  *)
(*                                                                         *)
(* Text is a sequence of one-character strings, so that line splitting,    *)
(* header recognition, number parsing and file naming are computed, not    *)
(* assumed.  Line indices are 0-based as in the program; TLA+ sequences    *)
(* are 1-based, so line k of the program is lines[k + 1].                  *)
(***************************************************************************)
EXTENDS Integers, Sequences, FiniteSets, TLC

VARIABLES
    text,       \* the raw input document
    doc,        \* the CorpusDocument built from text, or NoDoc
    store,      \* store[s]: fragment files and manifest of target store s
    run,        \* run[s]: progress of the split writing into store s
    deleted,    \* deleted[s]: fragment files removed from store s by its owner
    last,       \* the operation performed by the latest step, and its result
    xmlDir,     \* the XML master-data directory: file name -> file
    patterns,   \* CorpusManager.patterns: id -> Pattern
    outFiles,   \* output files written by the CorpusManager exports
    cmResult,   \* outcome of the latest CorpusManager call
    origin,     \* ghost: the file each loaded pattern was parsed from
    db,         \* the patterns table of the API: row id -> PatternDB row
    conv,       \* the compact converter: a pattern, its compact form, and
                \* the pattern restored from that
    merge,      \* a call of _merge_arrays: its arguments, then its result
    tx          \* tx[s]: the create request in progress in database session s

docVars == <<text, doc, store, run, deleted>>
cmVars == <<xmlDir, patterns, outFiles, cmResult, origin>>
apiVars == <<db, conv, merge, tx>>
vars == <<text, doc, store, run, deleted, last, xmlDir, patterns, outFiles, cmResult, origin, db, conv, merge, tx>>

\* ------------------------------------------------------------------------
\* Bounds of the model
\* ------------------------------------------------------------------------
MaxLines == 3
MaxFree == 3
MaxDeletes == 1

\* ------------------------------------------------------------------------
\* Characters and text helpers
\* ------------------------------------------------------------------------
LF == "\n"
CR == "\r"
Marker == "#"
MaxLevel == 6

Digits == {"0", "1", "2", "3", "4", "5", "6", "7", "8", "9"}
Upper == {"C", "F", "P"}
Lower == {"a", "b", "t"}
Whitespace == {" ", CR, LF}

RECURSIVE Concat(_)
Concat(ss) == IF ss = <<>> THEN <<>> ELSE Head(ss) \o Concat(Tail(ss))

RECURSIVE LStrip(_)
LStrip(s) == IF s # <<>> /\ Head(s) \in Whitespace THEN LStrip(Tail(s)) ELSE s

RECURSIVE RStrip(_)
RStrip(s) ==
    IF s # <<>> /\ s[Len(s)] \in Whitespace
    THEN RStrip(SubSeq(s, 1, Len(s) - 1))
    ELSE s

Trim(s) == RStrip(LStrip(s))

\* length of the longest prefix of s, starting at position i, drawn from set
RECURSIVE RunLen(_, _, _)
RunLen(s, i, set) ==
    IF i <= Len(s) /\ s[i] \in set THEN 1 + RunLen(s, i + 1, set) ELSE 0

\* ------------------------------------------------------------------------
\* parse, step 1: the line buffer (terminators retained)
\* ------------------------------------------------------------------------
RECURSIVE FirstLF(_, _)
FirstLF(t, i) ==
    IF i > Len(t) THEN 0
    ELSE IF t[i] = LF THEN i
    ELSE FirstLF(t, i + 1)

\* variant: the terminators are dropped from the lines
RECURSIVE SplitLinesStripped(_)
SplitLinesStripped(t) ==
    IF t = <<>> THEN <<>>
    ELSE LET k == FirstLF(t, 1)
         IN  IF k = 0 THEN <<t>>
             ELSE <<SubSeq(t, 1, k - 1)>>
                  \o SplitLinesStripped(SubSeq(t, k + 1, Len(t)))

RECURSIVE SplitLines(_)
SplitLines(t) ==
    IF t = <<>> THEN <<>>
    ELSE LET k == FirstLF(t, 1)
         IN  IF k = 0 THEN <<t>>
             ELSE <<SubSeq(t, 1, k)>> \o SplitLines(SubSeq(t, k + 1, Len(t)))

\* a line without its terminator ("\n" or "\r\n")
StripTerminator(line) ==
    LET a == IF line # <<>> /\ line[Len(line)] = LF
             THEN SubSeq(line, 1, Len(line) - 1) ELSE line
    IN  IF a # <<>> /\ a[Len(a)] = CR THEN SubSeq(a, 1, Len(a) - 1) ELSE a

\* ------------------------------------------------------------------------
\* Tokenizer / Section-Builder
\* ------------------------------------------------------------------------
\* header level of a line: the count of leading marker characters, provided
\* it is 1..MaxLevel and a non-blank title follows after a space; 0 otherwise
\* (such a line is plain content)
HeaderLevel(line) ==
    LET body == StripTerminator(line)
        n == RunLen(body, 1, {Marker})
    IN  IF /\ n >= 1
           /\ n <= MaxLevel
           /\ n < Len(body)
           /\ body[n + 1] = " "
           /\ Trim(SubSeq(body, n + 1, Len(body))) # <<>>
        THEN n ELSE 0

HeaderTitle(line) ==
    LET body == StripTerminator(line)
        n == RunLen(body, 1, {Marker})
    IN  Trim(SubSeq(body, n + 1, Len(body)))

\* the identifier at the front of a title: "0. ", "2.1 ", "P35. ", "F1.1 ";
\* <<>> when the title carries none
ParseNumber(title) ==
    LET k == IF title # <<>> /\ title[1] \in Upper THEN 1 ELSE 0
        d1 == RunLen(title, k + 1, Digits)
        dot == k + d1 + 1
        d2 == RunLen(title, dot + 1, Digits)
    IN  IF d1 = 0 \/ dot > Len(title) \/ title[dot] # "." THEN <<>>
        ELSE IF dot + 1 <= Len(title) /\ title[dot + 1] \in Whitespace
             THEN SubSeq(title, 1, dot - 1)
        ELSE IF d2 >= 1 /\ dot + d2 + 1 <= Len(title)
                /\ title[dot + d2 + 1] \in Whitespace
             THEN SubSeq(title, 1, dot + d2)
        ELSE <<>>

NoSection == [level |-> 0]

NewSection(line, lvl, at) ==
    [level |-> lvl,
     title |-> HeaderTitle(line),
     number |-> ParseNumber(HeaderTitle(line)),
     raw_header |-> StripTerminator(line),
     content |-> <<>>,
     subsections |-> <<>>,
     start_line |-> at,
     end_line |-> at]

\* close the open section (if any) so that it ends on absolute line `at`
CloseSection(acc, cur, at) ==
    IF cur.level = 0 THEN acc ELSE Append(acc, [cur EXCEPT !.end_line = at])

\* local index of the next header at level <= lvl after local index i, or
\* the number of lines when there is none: the end of the sub-run
RECURSIVE SubRunEnd(_, _, _)
SubRunEnd(lines, i, lvl) ==
    IF i >= Len(lines) THEN Len(lines)
    ELSE LET h == HeaderLevel(lines[i + 1])
         IN  IF h > 0 /\ h <= lvl THEN i ELSE SubRunEnd(lines, i + 1, lvl)

\* variant: the index local to the nested call is used as if absolute
AbsoluteLineLocal(line_offset, i) == i

\* absolute line index handed to a nested call and stored in a section
AbsoluteLine(line_offset, i) == line_offset + i

\* build(lines, start_index, parent_level, line_offset); cur is the section
\* currently open in this call and acc the sections already closed
RECURSIVE BuildLoop(_, _, _, _, _, _)
BuildLoop(lines, i, parent_level, line_offset, cur, acc) ==
    IF i >= Len(lines)
    THEN CloseSection(acc, cur, AbsoluteLine(line_offset, Len(lines) - 1))
    ELSE
      LET line == lines[i + 1]
          lvl == HeaderLevel(line)
      IN  IF lvl = 0
          THEN \* plain line: content of the open section, dropped if none
               BuildLoop(lines, i + 1, parent_level, line_offset,
                         IF cur.level = 0 THEN cur
                         ELSE [cur EXCEPT !.content = Append(@, line)],
                         acc)
          ELSE IF lvl <= parent_level
          THEN \* closes this nesting frame; the line is left to the caller
               CloseSection(acc, cur, AbsoluteLine(line_offset, i - 1))
          ELSE IF cur.level # 0 /\ lvl > cur.level
          THEN \* deeper header: delegate the sub-run, splice, skip past it
               LET j == SubRunEnd(lines, i + 1, lvl)
                   subs == BuildLoop(SubSeq(lines, i + 1, j), 0, cur.level,
                                     AbsoluteLine(line_offset, i),
                                     NoSection, <<>>)
               IN  BuildLoop(lines, j, parent_level, line_offset,
                             [cur EXCEPT !.subsections = @ \o subs], acc)
          ELSE \* sibling header: close the open section, open a new one
               BuildLoop(lines, i + 1, parent_level, line_offset,
                         NewSection(line, lvl, AbsoluteLine(line_offset, i)),
                         CloseSection(acc, cur, AbsoluteLine(line_offset, i - 1)))

Build(lines, start_index, parent_level, line_offset) ==
    BuildLoop(lines, start_index, parent_level, line_offset, NoSection, <<>>)

\* pre-order traversal of the section tree
RECURSIVE Flatten(_)
Flatten(secs) ==
    IF secs = <<>> THEN <<>>
    ELSE <<Head(secs)>> \o Flatten(Head(secs).subsections) \o Flatten(Tail(secs))

\* ------------------------------------------------------------------------
\* Entry Extractor
\* ------------------------------------------------------------------------
\* entry-identifier grammar: one upper-case letter, digits, optionally a dot
\* and more digits
IsEntryId(number) ==
    LET d1 == RunLen(number, 2, Digits)
        d2 == RunLen(number, d1 + 3, Digits)
    IN  /\ number # <<>>
        /\ number[1] \in Upper
        /\ d1 >= 1
        /\ \/ Len(number) = 1 + d1
           \/ /\ Len(number) = 1 + d1 + 1 + d2
              /\ number[d1 + 2] = "."
              /\ d2 >= 1

\* the title without its number prefix and the separating punctuation
EntryName(sec) ==
    LET rest == SubSeq(sec.title, Len(sec.number) + 1, Len(sec.title))
    IN  Trim(IF rest # <<>> /\ Head(rest) = "." THEN Tail(rest) ELSE rest)

\* position (1-based) of the entry with this id in an ordered entry list, or 0
RECURSIVE EntryIndex(_, _, _)
EntryIndex(entries, id, k) ==
    IF k > Len(entries) THEN 0
    ELSE IF entries[k].id = id THEN k
    ELSE EntryIndex(entries, id, k + 1)

\* what a colliding id does to the mapping: the first entry stays
KeepFirst(entries, e) == entries

\* extract(sections) over the flattened list; `section` is the index of the
\* originating section in that list (a reference, not a copy).  A second
\* section with an id already extracted is reported with both sections.
RECURSIVE ExtractLoop(_, _, _, _)
ExtractLoop(flat, k, entries, dups) ==
    IF k > Len(flat) THEN [entries |-> entries, duplicates |-> dups]
    ELSE
      LET sec == flat[k]
          e == [id |-> sec.number,
                type_tag |-> SubSeq(sec.number, 1, 1),
                id_number |-> SubSeq(sec.number, 2, Len(sec.number)),
                name |-> EntryName(sec),
                section |-> k]
          prev == EntryIndex(entries, sec.number, 1)
      IN  IF ~IsEntryId(sec.number)
          THEN ExtractLoop(flat, k + 1, entries, dups)
          ELSE IF prev # 0
          THEN ExtractLoop(flat, k + 1, KeepFirst(entries, e),
                           Append(dups, [error |-> "DuplicateEntryId",
                                         id |-> sec.number,
                                         first |-> flat[entries[prev].section].title,
                                         second |-> sec.title]))
          ELSE ExtractLoop(flat, k + 1, Append(entries, e), dups)

Extract(sections) == ExtractLoop(Flatten(sections), 1, <<>>, <<>>)

\* ------------------------------------------------------------------------
\* parse(text) -> CorpusDocument
\* ------------------------------------------------------------------------
NoDoc == [kind |-> "none"]

Parse(t) ==
    LET lines == SplitLines(t)
        sections == Build(lines, 0, 0, 0)
        ex == Extract(sections)
    IN  [kind |-> "doc",
         lines |-> lines,
         sections |-> sections,
         entries |-> ex.entries,
         duplicates |-> ex.duplicates]

\* ------------------------------------------------------------------------
\* Exact Rebuilder
\* ------------------------------------------------------------------------
Rebuild(d) == Concat(d.lines)

\* ------------------------------------------------------------------------
\* Splitter
\* ------------------------------------------------------------------------
Max(a, b) == IF a >= b THEN a ELSE b

\* the end of a section's range: the max of its own end_line, the extent of
\* its content, and the deepest end among its subsections
RECURSIVE ActualEnd(_)
RECURSIVE DeepestEnd(_)
ActualEnd(sec) ==
    Max(Max(sec.end_line, sec.start_line + Len(sec.content)),
        DeepestEnd(sec.subsections))
DeepestEnd(subs) ==
    IF subs = <<>> THEN 0
    ELSE Max(ActualEnd(Head(subs)), DeepestEnd(Tail(subs)))

EntrySection(d, e) == Flatten(d.sections)[e.section]
EntryStart(d, e) == EntrySection(d, e).start_line
EntryEnd(d, e) == ActualEnd(EntrySection(d, e))

\* an entry whose computed span is empty or inverted
Degenerate(d, e) == EntryEnd(d, e) < EntryStart(d, e)

\* line -> entry-id map: every line of every entry's range is marked with the
\* entry's id, entries taken in mapping order (a later entry overwrites);
\* <<>> marks a line that belongs to no entry
RECURSIVE LineMap(_, _, _)
LineMap(d, k, m) ==
    IF k > Len(d.entries) THEN m
    ELSE LET e == d.entries[k]
         IN  LineMap(d, k + 1,
                     [i \in DOMAIN m |->
                        IF i >= EntryStart(d, e) /\ i <= EntryEnd(d, e)
                        THEN e.id ELSE m[i]])

LineToEntry(d) == LineMap(d, 1, [i \in 0 .. Len(d.lines) - 1 |-> <<>>])

\* decimal digits of n, left-padded with zeros to the given width
DigitChar(k) == <<"0", "1", "2", "3", "4", "5", "6", "7", "8", "9">>[k + 1]
RECURSIVE ZeroPad(_, _)
ZeroPad(n, width) ==
    IF width <= 1 /\ n < 10 THEN <<DigitChar(n)>>
    ELSE Append(ZeroPad(n \div 10, width - 1), DigitChar(n % 10))

PadWidth == 3

\* file-name-safe form of an entry name
Sanitize(name) ==
    [i \in 1 .. Len(name) |->
        IF name[i] \in Digits \cup Upper \cup Lower THEN name[i] ELSE "_"]

SectionFileName(seq) == <<"s", "_">> \o ZeroPad(seq, PadWidth)
EntryFileName(e) == e.id \o <<"_">> \o Sanitize(e.name)

SectionPart(seq, from, to) ==
    [kind |-> "section", id |-> ZeroPad(seq, PadWidth), name |-> <<>>,
     filename |-> SectionFileName(seq), start_line |-> from, end_line |-> to]

EntryPart(d, e) ==
    [kind |-> "entry", id |-> e.id, name |-> e.name,
     filename |-> EntryFileName(e),
     start_line |-> EntryStart(d, e), end_line |-> EntryEnd(d, e)]

\* flush the pending run of non-entry lines [from, i) as a section part
Flush(parts, seq, from, i) ==
    IF from < i THEN Append(parts, SectionPart(seq, from, i - 1)) ELSE parts

\* variant: the scan resumes one line too far
ResumeAfterSkip(d, e) == EntryEnd(d, e) + 2

\* where the scan resumes after emitting an entry's part
ResumeAfter(d, e) == EntryEnd(d, e) + 1

\* the walk over line indices 0 .. total_lines: `from` is the first line of
\* the pending section fragment and seq the next sequential section id.  A
\* line marked with an entry flushes the pending fragment and emits that
\* entry's part; the scan resumes past the entry's range, so the other lines
\* marked for it are never visited
RECURSIVE Walk(_, _, _, _, _, _)
Walk(d, m, i, from, seq, parts) ==
    IF i >= Len(d.lines) THEN Flush(parts, seq, from, i)
    ELSE IF m[i] = <<>>
    THEN Walk(d, m, i + 1, from, seq, parts)
    ELSE LET e == d.entries[EntryIndex(d.entries, m[i], 1)]
             flushed == Flush(parts, seq, from, i)
             nseq == IF from < i THEN seq + 1 ELSE seq
         IN  Walk(d, m, ResumeAfter(d, e), ResumeAfter(d, e), nseq,
                  Append(flushed, EntryPart(d, e)))

\* variant: the section counter is shared by all splits of the process
FirstSectionIdShared(others) == Cardinality(others)

\* the sequential id given to the first section fragment of a split
FirstSectionId(others) == 0

SplitParts(d, first) == Walk(d, LineToEntry(d), 0, 0, first, <<>>)

\* variant: the end line is treated as exclusive
LinesTextExclusive(d, from, to) == Concat(SubSeq(d.lines, from + 1, to))

\* the literal text of lines from .. to (0-based, inclusive)
LinesText(d, from, to) == Concat(SubSeq(d.lines, from + 1, to + 1))

\* ------------------------------------------------------------------------
\* Stores, and the Concatenator
\* ------------------------------------------------------------------------
NoManifest == [kind |-> "none"]
EmptyFiles == [f \in {} |-> <<>>]
EmptyStore == [files |-> EmptyFiles, manifest |-> NoManifest]

WriteFile(files, name, content) == (name :> content) @@ files

\* variant: a missing fragment is skipped
RECURSIVE ReadPartsSkipMissing(_, _, _, _)
ReadPartsSkipMissing(st, parts, k, acc) ==
    IF k > Len(parts) THEN [kind |-> "ok", text |-> acc, file |-> <<>>]
    ELSE IF parts[k].filename \notin DOMAIN st.files
    THEN ReadPartsSkipMissing(st, parts, k + 1, acc)
    ELSE ReadPartsSkipMissing(st, parts, k + 1, acc \o st.files[parts[k].filename])

\* ok(text) or the first missing fragment, reading parts k.. in order
RECURSIVE ReadParts(_, _, _, _)
ReadParts(st, parts, k, acc) ==
    IF k > Len(parts) THEN [kind |-> "ok", text |-> acc, file |-> <<>>]
    ELSE IF parts[k].filename \notin DOMAIN st.files
    THEN [kind |-> "MissingFragment", text |-> <<>>, file |-> parts[k].filename]
    ELSE ReadParts(st, parts, k + 1, acc \o st.files[parts[k].filename])

ManifestName == <<"m", "a", "n", "i", "f", "e", "s", "t">>

\* concatenate(source_store): the manifest and the files it names, only
Concatenate(st) ==
    IF st.manifest.kind = "none"
    THEN [kind |-> "MissingManifest", text |-> <<>>, file |-> ManifestName]
    ELSE ReadParts(st, st.manifest.parts, 1, <<>>)


\* ------------------------------------------------------------------------
\* Input documents
\* ------------------------------------------------------------------------
\* line bodies: numbered headers at levels 1 and 3, entry headers (P1 at
\* level 1, F1.1 at level 2) and a content line; FreeTexts adds the
\* unnumbered header "# a" and every mix of markers, blanks and terminators
Bodies ==
    { <<"#", " ", "1", ".", " ", "a">>,
      <<"#", " ", "P", "1", ".", " ", "a">>,
      <<"#", "#", " ", "F", "1", ".", "1", " ", "b">>,
      <<"#", "#", "#", " ", "2", ".", "1", " ", "t">>,
      <<"t">> }

LineEndings == { <<LF>>, <<CR, LF>> }

BodySeqs == UNION { [1 .. n -> Bodies] : n \in 0 .. MaxLines }

\* a document in one line-ending style, with or without the final terminator
Styled(bs, eol, final) ==
    Concat([i \in 1 .. Len(bs) |->
              IF i = Len(bs) /\ ~final THEN bs[i] ELSE bs[i] \o eol])

FreeChars == {Marker, " ", "a", CR, LF}
FreeTexts == UNION { [1 .. n -> FreeChars] : n \in 0 .. MaxFree }

Documents ==
    { Styled(bs, eol, final) :
        bs \in BodySeqs, eol \in LineEndings, final \in BOOLEAN }
    \cup FreeTexts

\* ------------------------------------------------------------------------
\* Part I state machine: parse, split into a store, concatenate
\* ------------------------------------------------------------------------
Stores == {1, 2}

IdleRun == [pc |-> "idle", parts |-> <<>>, next |-> 1, error |-> "none"]
NoOut == [kind |-> "none", text |-> <<>>, file |-> <<>>]
Did(op, s) == [op |-> op, s |-> s, result |-> NoOut]

NoPatterns == [i \in {} |-> 0]
NoConversion == [stage |-> "none"]
NoMerge == [stage |-> "none"]
\* two database sessions (get_db gives each request its own), none with a
\* request in progress
NoTx == [s \in {1, 2} |-> [pc |-> "idle"]]
NoCall ==
    [op |-> "none", id |-> "", path |-> "", raised |-> "none",
     warnings |-> {}, replaced |-> {}]

CmIdle ==
    /\ xmlDir = <<>>
    /\ patterns = NoPatterns
    /\ outFiles = NoPatterns
    /\ cmResult = NoCall
    /\ origin = NoPatterns

InitDoc ==
    /\ text \in Documents
    /\ doc = NoDoc
    /\ store = [s \in Stores |-> EmptyStore]
    /\ run = [s \in Stores |-> IdleRun]
    /\ deleted = [s \in Stores |-> {}]
    /\ last = Did("init", 0)
    /\ CmIdle
    /\ db = NoPatterns
    /\ conv = NoConversion
    /\ merge = NoMerge
    /\ tx = NoTx

\* parse(text)
ParseDoc ==
    /\ doc.kind = "none"
    /\ doc' = Parse(text)
    /\ last' = Did("parse", 0)
    /\ UNCHANGED <<text, store, run, deleted>>
    /\ UNCHANGED <<cmVars, apiVars>>

\* variant: the manifest is written without waiting for the fragments
ManifestDueAtOnce(r) == TRUE

\* may the manifest of this run be written now?
ManifestDue(r) == r.next > Len(r.parts)

\* split(doc, store s), first step: the ranges are computed and checked
\* before anything is written
SplitBegin(s) ==
    /\ doc.kind = "doc"
    /\ run[s].pc = "idle"
    /\ IF \E k \in 1 .. Len(doc.entries) : Degenerate(doc, doc.entries[k])
       THEN run' = [run EXCEPT ![s] = [@ EXCEPT !.pc = "failed",
                                                !.error = "DegenerateRange"]]
       ELSE run' = [run EXCEPT ![s] =
                      [pc |-> "writing",
                       parts |-> SplitParts(doc, FirstSectionId(
                                    {o \in Stores : run[o].pc # "idle"})),
                       next |-> 1,
                       error |-> "none"]]
    /\ last' = Did("split", s)
    /\ UNCHANGED <<text, doc, store, deleted>>
    /\ UNCHANGED <<cmVars, apiVars>>

\* split, one fragment: the literal lines of the next part go to its file
WriteFragment(s) ==
    /\ run[s].pc = "writing"
    /\ ~ManifestDue(run[s])
    /\ LET p == run[s].parts[run[s].next]
       IN  store' = [store EXCEPT ![s].files =
                        WriteFile(@, p.filename,
                                  LinesText(doc, p.start_line, p.end_line))]
    /\ run' = [run EXCEPT ![s].next = @ + 1]
    /\ last' = Did("write", s)
    /\ UNCHANGED <<text, doc, deleted>>
    /\ UNCHANGED <<cmVars, apiVars>>

\* split, last step: the manifest
WriteManifest(s) ==
    /\ run[s].pc = "writing"
    /\ ManifestDue(run[s])
    /\ store' = [store EXCEPT ![s].manifest =
                    [kind |-> "manifest",
                     total_lines |-> Len(doc.lines),
                     parts |-> run[s].parts]]
    /\ run' = [run EXCEPT ![s].pc = "done"]
    /\ last' = Did("manifest", s)
    /\ UNCHANGED <<text, doc, deleted>>
    /\ UNCHANGED <<cmVars, apiVars>>

\* a write fails or the process is stopped partway through a split
SplitAbort(s) ==
    /\ run[s].pc = "writing"
    /\ run' = [run EXCEPT ![s].pc = "failed", ![s].error = "WriteFailed"]
    /\ last' = Did("abort", s)
    /\ UNCHANGED <<text, doc, store, deleted>>
    /\ UNCHANGED <<cmVars, apiVars>>

\* the owner of a store removes one fragment file after a finished split
DeleteFragment(s) ==
    /\ run[s].pc = "done"
    /\ Cardinality(deleted[s]) < MaxDeletes
    /\ \E f \in DOMAIN store[s].files :
         /\ store' = [store EXCEPT ![s].files =
                         [g \in DOMAIN @ \ {f} |-> @[g]]]
         /\ deleted' = [deleted EXCEPT ![s] = @ \cup {f}]
    /\ last' = Did("delete", s)
    /\ UNCHANGED <<text, doc, run>>
    /\ UNCHANGED <<cmVars, apiVars>>

\* concatenate(store s); may run at any time, also while a split is writing
ConcatenateStore(s) ==
    /\ last' = [op |-> "concatenate", s |-> s, result |-> Concatenate(store[s])]
    /\ UNCHANGED <<text, doc, store, run, deleted>>
    /\ UNCHANGED <<cmVars, apiVars>>

NextDoc ==
    \/ ParseDoc
    \/ \E s \in Stores : SplitBegin(s)
    \/ \E s \in Stores : WriteFragment(s)
    \/ \E s \in Stores : WriteManifest(s)
    \/ \E s \in Stores : SplitAbort(s)
    \/ \E s \in Stores : DeleteFragment(s)
    \/ \E s \in Stores : ConcatenateStore(s)

SpecDoc == InitDoc /\ [][NextDoc]_vars


\* ------------------------------------------------------------------------
\* Part II: CorpusManager (corpus_manager.py)
\* ------------------------------------------------------------------------
MaxXmlFiles == 3

\* the files of the master-data directory, named so that sorting the names
\* sorts the numbers
XmlFileNames == 1 .. MaxXmlFiles
MaxXmlProps == 1
XmlIds == {"P1", "P2"}
XmlNames == {"a", "b"}

\* A child element of an XML document is absent, or present with its
\* character content, which is "" for an empty element.  The text of an
\* element in the parsed tree is None when the content is empty.
Absent == [present |-> FALSE]
Element(content) == [present |-> TRUE, content |-> content]
None == [none |-> TRUE]
Str(s) == [text |-> s]
ElementText(elem) == IF elem.content = "" THEN None ELSE Str(elem.content)

\* a pattern file: the id attribute, the content of metadata/name and the
\* property elements (id attribute, formal-spec child)
Malformed == [wellformed |-> FALSE, id |-> "", name |-> "", properties |-> <<>>]
XmlFiles ==
    {Malformed}
       \cup [wellformed : {TRUE}, id : XmlIds, name : XmlNames,
             properties : {<<>>}]
XmlDocuments ==
    LET XmlProperties ==
            [id : {"p"}, formal_spec : {Absent, Element(""), Element("s")}]
    IN  [wellformed : {TRUE}, id : {"P1"}, name : XmlNames,
         properties :
            UNION {[1 .. n -> XmlProperties] : n \in 0 .. MaxXmlProps}]

\* XMLParser.parse_pattern_file: the Pattern read from a well-formed file;
\* ET.parse raises on a malformed one
ParseRaises(file) == ~file.wellformed
ParseProperty(prop) ==
    [id |-> prop.id,
     formal_spec |-> IF prop.formal_spec.present
                     THEN ElementText(prop.formal_spec) ELSE Str("")]
ParsePatternFile(file) ==
    [id |-> file.id, version |-> "1.0", name |-> file.name,
     category |-> "pattern",
     properties |-> [i \in DOMAIN file.properties |->
                       ParseProperty(file.properties[i])]]

\* self.patterns[pattern.id] = pattern
Assign(ps, pattern) == (pattern.id :> pattern) @@ ps

\* ghost: does assigning the pattern of file f replace one that came from
\* another file?
Replaces(org, pattern, f) == pattern.id \in DOMAIN org /\ org[pattern.id] # f

\* the loop of load_from_xml_directory over the sorted files k ..; a file
\* that fails to parse is warned about and skipped
RECURSIVE LoadLoop(_, _, _)
LoadLoop(dir, k, acc) ==
    IF k > Len(dir) THEN acc
    ELSE IF ParseRaises(dir[k])
    THEN LoadLoop(dir, k + 1, [acc EXCEPT !.warnings = @ \cup {k}])
    ELSE LET pattern == ParsePatternFile(dir[k])
         IN  LoadLoop(dir, k + 1,
                [acc EXCEPT
                   !.patterns = Assign(@, pattern),
                   !.origin = (pattern.id :> k) @@ @,
                   !.replaced = IF Replaces(acc.origin, pattern, k)
                                THEN @ \cup {[id |-> pattern.id,
                                              first |-> acc.origin[pattern.id],
                                              second |-> k]}
                                ELSE @])

\* CorpusManager.load_from_xml_directory
LoadFromXmlDirectory ==
    /\ xmlDir # <<>>
    /\ LET r == LoadLoop(xmlDir, 1, [patterns |-> patterns, origin |-> origin,
                                     warnings |-> {}, replaced |-> {}])
       IN  /\ patterns' = r.patterns
           /\ origin' = r.origin
           /\ cmResult' = [op |-> "load_from_xml_directory", id |-> "",
                           path |-> "", raised |-> "none",
                           warnings |-> r.warnings, replaced |-> r.replaced]
    /\ last' = Did("load_from_xml_directory", 0)
    /\ UNCHANGED <<xmlDir, outFiles>>
    /\ UNCHANGED <<docVars, apiVars>>

\* CorpusManager.load_pattern_xml(xml_path)
LoadPatternXml(k) ==
    /\ k \in DOMAIN xmlDir
    /\ IF ParseRaises(xmlDir[k])
       THEN /\ cmResult' = [op |-> "load_pattern_xml", id |-> "", path |-> "",
                            raised |-> "ParseError", warnings |-> {},
                            replaced |-> {}]
            /\ UNCHANGED <<patterns, origin>>
       ELSE LET pattern == ParsePatternFile(xmlDir[k])
            IN  /\ patterns' = Assign(patterns, pattern)
                /\ origin' = (pattern.id :> k) @@ origin
                /\ cmResult' =
                     [op |-> "load_pattern_xml", id |-> pattern.id,
                      path |-> "", raised |-> "none", warnings |-> {},
                      replaced |-> IF Replaces(origin, pattern, k)
                                   THEN {[id |-> pattern.id,
                                          first |-> origin[pattern.id],
                                          second |-> k]}
                                   ELSE {}]
    /\ last' = Did("load_pattern_xml", 0)
    /\ UNCHANGED <<xmlDir, outFiles>>
    /\ UNCHANGED <<docVars, apiVars>>

\* the character content ET.tostring writes for the text of an element
TextContent(value) == IF value = None THEN "" ELSE value.text

\* _pattern_to_xml / _pattern_to_markdown: the rendered document
PropertyToXml(prop) ==
    [id |-> prop.id, formal_spec |-> Element(TextContent(prop.formal_spec))]
PatternToXml(pattern) ==
    [format |-> "xml", id |-> pattern.id, version |-> pattern.version,
     name |-> pattern.name, category |-> pattern.category,
     properties |-> [i \in DOMAIN pattern.properties |->
                       PropertyToXml(pattern.properties[i])]]
PatternToMarkdown(pattern) ==
    [format |-> "markdown", header |-> <<pattern.id, pattern.name>>,
     category |-> pattern.category]
Render(fmt, pattern) ==
    IF fmt = "xml" THEN PatternToXml(pattern) ELSE PatternToMarkdown(pattern)

NoPath == ""
OutPaths == {"out.1"}
ExportIds == XmlIds \cup {"P9"}
ExportOps == {"export_to_xml", "export_to_markdown"}

\* variant: the output file is created before the pattern is looked up
ExportToCreateFirst(ps, files, fmt, id, path) ==
    LET created == IF path # NoPath
                   THEN (path :> [format |-> fmt]) @@ files ELSE files
    IN  IF id \notin DOMAIN ps
        THEN [raised |-> "ValueError: not found", files |-> created]
        ELSE [raised |-> "none",
              files |-> IF path # NoPath
                        THEN (path :> Render(fmt, ps[id])) @@ created
                        ELSE created]

\* export_to_xml / export_to_markdown(pattern_id, output_path): the exception
\* raised ("none" if none) and the output files afterwards
ExportTo(ps, files, fmt, id, path) ==
    IF id \notin DOMAIN ps
    THEN [raised |-> "ValueError: not found", files |-> files]
    ELSE [raised |-> "none",
          files |-> IF path # NoPath
                    THEN (path :> Render(fmt, ps[id])) @@ files
                    ELSE files]

Export(op, fmt) ==
    \E id \in ExportIds, path \in OutPaths \cup {NoPath} :
       LET r == ExportTo(patterns, outFiles, fmt, id, path)
       IN  /\ outFiles' = r.files
           /\ cmResult' = [op |-> op, id |-> id, path |-> path,
                           raised |-> r.raised, warnings |-> {},
                           replaced |-> {}]
           /\ last' = Did(op, 0)
           /\ UNCHANGED <<xmlDir, patterns, origin>>
           /\ UNCHANGED <<docVars, apiVars>>

ExportToXml == Export("export_to_xml", "xml")
ExportToMarkdown == Export("export_to_markdown", "markdown")

\* CorpusManager.validate_xml_roundtrip(pattern_id): XmlRoundtrip is the
\* (is_valid, message) for a loaded pattern, with the pattern parsed back
ValidateXmlRoundtrip ==
    LET XmlRoundtrip(original) ==
            LET reconstructed == ParsePatternFile(PatternToXml(original))
                message ==
                    IF original.id # reconstructed.id THEN "ID mismatch"
                    ELSE IF original.name # reconstructed.name
                    THEN "Name mismatch"
                    ELSE IF Len(original.properties)
                               # Len(reconstructed.properties)
                    THEN "Property count mismatch"
                    ELSE "Perfect XML round-trip: pattern identical"
            IN  [found |-> TRUE,
                 is_valid |->
                    message = "Perfect XML round-trip: pattern identical",
                 message |-> message, reconstructed |-> reconstructed]
    IN  \E id \in ExportIds :
           /\ last' = [op |-> "validate_xml_roundtrip", s |-> 0,
                       result |-> IF id \notin DOMAIN patterns
                                  THEN [found |-> FALSE, is_valid |-> FALSE,
                                        message |-> "not found"]
                                  ELSE XmlRoundtrip(patterns[id])]
           /\ cmResult' = [op |-> "validate_xml_roundtrip", id |-> id,
                           path |-> "", raised |-> "none", warnings |-> {},
                           replaced |-> {}]
           /\ UNCHANGED <<xmlDir, patterns, outFiles, origin>>
           /\ UNCHANGED <<docVars, apiVars>>

InitCorpus ==
    /\ text = <<>>
    /\ doc = NoDoc
    /\ store = [s \in Stores |-> EmptyStore]
    /\ run = [s \in Stores |-> IdleRun]
    /\ deleted = [s \in Stores |-> {}]
    /\ last = Did("init", 0)
    /\ xmlDir \in [XmlFileNames -> XmlFiles]
    /\ patterns = NoPatterns
    /\ outFiles = NoPatterns
    /\ cmResult = NoCall
    /\ origin = NoPatterns
    /\ db = NoPatterns
    /\ conv = NoConversion
    /\ merge = NoMerge
    /\ tx = NoTx

NextCorpus ==
    \/ LoadFromXmlDirectory
    \/ \E k \in XmlFileNames : LoadPatternXml(k)
    \/ ExportToXml
    \/ ExportToMarkdown
    \/ ValidateXmlRoundtrip

SpecCorpus == InitCorpus /\ [][NextCorpus]_vars

\* the CorpusManager over a directory of one pattern file with properties
InitXml ==
    /\ text = <<>>
    /\ doc = NoDoc
    /\ store = [s \in Stores |-> EmptyStore]
    /\ run = [s \in Stores |-> IdleRun]
    /\ deleted = [s \in Stores |-> {}]
    /\ last = Did("init", 0)
    /\ xmlDir \in [{1} -> XmlDocuments]
    /\ patterns = NoPatterns
    /\ outFiles = NoPatterns
    /\ cmResult = NoCall
    /\ origin = NoPatterns
    /\ db = NoPatterns
    /\ conv = NoConversion
    /\ merge = NoMerge
    /\ tx = NoTx

SpecXml == InitXml /\ [][NextCorpus]_vars


\* ========================================================================
\* Properties of Part I (checked under SpecDoc)
\* ========================================================================
Parsed == doc.kind = "doc"
HasManifest(s) == store[s].manifest.kind = "manifest"
ManifestParts(s) == store[s].manifest.parts
NamedFiles(s) == {ManifestParts(s)[k].filename : k \in DOMAIN ManifestParts(s)}
MissingFiles(s) == NamedFiles(s) \ DOMAIN store[s].files
Concatenated(s) == last.op = "concatenate" /\ last.s = s

\* C1: rebuilding from the parsed document returns exactly the original text,
\* whatever the headers, the line-ending style or the final terminator; the
\* line buffer holds every character of the input, in order.
C1_ExactRoundTrip == Parsed => Rebuild(doc) = text

\* a parsed document of several lines with a "\r\n" terminator, a header and
\* an unterminated last line
C1_Witness ==
    /\ Parsed
    /\ Len(doc.lines) >= 2
    /\ doc.sections # <<>>
    /\ \E i \in DOMAIN text : text[i] = CR
    /\ text[Len(text)] # LF

\* C2: concatenating a finished, untouched split (the manifest and the files
\* it names, in manifest order) yields exactly the original document.
C2_SplitConcatenate ==
    \A s \in Stores :
       (Concatenated(s) /\ run[s].pc = "done" /\ deleted[s] = {})
          => (last.result.kind = "ok" /\ last.result.text = text)

\* a concatenation of a split holding a section fragment and an entry
\* fragment, of a document whose last line has no terminator
C2_Witness ==
    \E s \in Stores :
       /\ Concatenated(s)
       /\ run[s].pc = "done"
       /\ deleted[s] = {}
       /\ last.result.kind = "ok"
       /\ \E j, k \in DOMAIN ManifestParts(s) :
             ManifestParts(s)[j].kind = "section" /\ ManifestParts(s)[k].kind = "entry"
       /\ text # <<>>
       /\ text[Len(text)] # LF

\* the ranges, in order, partition [0, total): first starts at 0, each next
\* starts right after the previous ends, the last ends at total - 1, and
\* every line is covered exactly once
Partition(parts, total) ==
    /\ Len(parts) = 0 => total = 0
    /\ Len(parts) > 0 => parts[1].start_line = 0 /\ parts[Len(parts)].end_line = total - 1
    /\ \A k \in DOMAIN parts : parts[k].start_line <= parts[k].end_line
    /\ \A k \in 1 .. Len(parts) - 1 : parts[k + 1].start_line = parts[k].end_line + 1
    /\ \A line \in 0 .. total - 1 :
          Cardinality({k \in DOMAIN parts :
                         parts[k].start_line <= line /\ line <= parts[k].end_line}) = 1

PartsOf(parts, id) == {k \in DOMAIN parts : parts[k].kind = "entry" /\ parts[k].id = id}

\* the entry's section lies inside the section of another entry
NestedEntry(d, e) ==
    \E k \in DOMAIN d.entries :
       /\ EntryStart(d, d.entries[k]) < EntryStart(d, e)
       /\ EntryEnd(d, e) <= EntryEnd(d, d.entries[k])

C4_ManifestLast ==
    \A s \in Stores :
       /\ HasManifest(s) => NamedFiles(s) \subseteq DOMAIN store[s].files \cup deleted[s]
       /\ (Concatenated(s) /\ run[s].pc # "done") => last.result.kind = "MissingManifest"

\* a reader looks into a store whose split stopped after writing a fragment,
\* while the other store holds a complete split of several parts
C4_Witness ==
    \E s, o \in Stores :
       /\ Concatenated(s)
       /\ run[s].pc = "failed"
       /\ DOMAIN store[s].files # {}
       /\ HasManifest(o)
       /\ Len(ManifestParts(o)) >= 2

\* C5: if a fragment named in the manifest is missing, concatenate returns
\* MissingFragment naming a missing file, and no text.
C5_MissingFragment ==
    \A s \in Stores :
       (Concatenated(s) /\ HasManifest(s) /\ MissingFiles(s) # {})
          => /\ last.result.kind = "MissingFragment"
             /\ last.result.file \in MissingFiles(s)
             /\ last.result.text = <<>>

\* a concatenation after the owner deleted a fragment that is not the first
\* one named by the manifest
C5_Witness ==
    \E s \in Stores :
       /\ Concatenated(s)
       /\ deleted[s] # {}
       /\ last.result.kind = "MissingFragment"
       /\ last.result.file \in deleted[s]
       /\ last.result.file # ManifestParts(s)[1].filename

\* every entry range computed from a parsed document has end >= start
NoDegenerateEntry ==
    Parsed => \A k \in DOMAIN doc.entries : ~Degenerate(doc, doc.entries[k])

AllSections == Flatten(doc.sections)

InOrder(secs) ==
    \A i, j \in DOMAIN secs : i < j => secs[i].end_line < secs[j].start_line

\* C8: in the section tree each subsection's level is greater than its
\* parent's, each subsection's range lies inside its parent's range, and
\* sibling ranges never overlap.
C8_Nesting ==
    Parsed =>
       /\ InOrder(doc.sections)
       /\ \A k \in DOMAIN AllSections :
             LET sec == AllSections[k]
             IN  /\ sec.start_line <= sec.end_line
                 /\ InOrder(sec.subsections)
                 /\ \A i \in DOMAIN sec.subsections :
                       /\ sec.subsections[i].level > sec.level
                       /\ sec.start_line <= sec.subsections[i].start_line
                       /\ sec.subsections[i].end_line <= sec.end_line

\* a level-1 section whose child skips level 2 and has content of its own
C8_Witness ==
    /\ Parsed
    /\ \E k \in DOMAIN doc.sections :
          /\ doc.sections[k].level = 1
          /\ \E i \in DOMAIN doc.sections[k].subsections :
                /\ doc.sections[k].subsections[i].level = 3
                /\ doc.sections[k].subsections[i].content # <<>>

C7_DuplicateReported ==
    \A r \in cmResult.replaced :
       \/ cmResult.raised = "DuplicateEntryId"
       \/ {r.first, r.second} \subseteq cmResult.warnings

\* C10: exporting one pattern never changes the loaded patterns, and for an
\* id that is not loaded it raises "not found" and writes no output file.
C10_ExportNotFound ==
    [][cmResult'.op \in ExportOps =>
         /\ patterns' = patterns
         /\ cmResult'.id \notin DOMAIN patterns =>
               /\ cmResult'.raised = "ValueError: not found"
               /\ outFiles' = outFiles]_vars

\* an export to a file of an id that is not among the loaded patterns has
\* raised and left no file at that path
C10_Witness ==
    /\ cmResult.op \in ExportOps
    /\ cmResult.path # NoPath
    /\ DOMAIN patterns # {}
    /\ cmResult.id \notin DOMAIN patterns
    /\ cmResult.raised = "ValueError: not found"
    /\ cmResult.path \notin DOMAIN outFiles

\* ------------------------------------------------------------------------
\* Part III: the pattern API and its repository (api.py, database.py)
\* ------------------------------------------------------------------------
\* JSON values.  Each kind of value is a record with a field of its own, so
\* that values of different kinds can be compared.
JNull == [null |-> TRUE]
JTrue == [bool |-> TRUE]
JStr(s) == [str |-> s]
JList(q) == [list |-> q]
JDict(f) == [dict |-> f]
\* isinstance(v, kind)
Is(v, kind) == DOMAIN v = {kind}

ReplaceMarker == "__replace__"

\* merge_strategies of _merge_arrays: the identifying key of the items of a
\* list field, "" where the list is replaced as a whole
MergeStrategy(key) ==
    CASE key \in {"operation", "component", "type-def", "type_def",
                  "manifestation"} -> "name"
      [] key = "property" -> "id"
      [] OTHER -> ""

\* the identifiers of the items of an array that carry the merge key
Identifiers(array, mk) ==
    {array[i].dict[mk] :
        i \in {j \in DOMAIN array :
                  Is(array[j], "dict") /\ mk \in DOMAIN array[j].dict}}

RECURSIVE DeepMerge(_, _)
RECURSIVE MergeArrays(_, _, _)

\* PatternRepository._merge_arrays(key, base_array, update_array)
MergeArrays(key, base, update) ==
    LET mk == MergeStrategy(key)
        Mergeable(item) == Is(item, "dict") /\ mk \in DOMAIN item.dict
        baseIds == Identifiers(base, mk)
        updIds == Identifiers(update, mk)
        has_overlap == updIds \cap baseIds # {}
        \* the positions of the base items carrying an identifier
        At(ident) == {i \in DOMAIN base :
                         Mergeable(base[i]) /\ base[i].dict[mk] = ident}
        \* base_dict[identifier]: the last base item carrying it
        BaseItem(ident) == base[CHOOSE i \in At(ident) :
                                   \A j \in At(ident) : j <= i]
        \* base_dict keeps the order in which its keys were first inserted
        IsFirst(i) == \A j \in At(base[i].dict[mk]) : i <= j
        merged == [i \in DOMAIN update |->
                     IF Mergeable(update[i]) /\ update[i].dict[mk] \in baseIds
                     THEN JDict(DeepMerge(BaseItem(update[i].dict[mk]).dict,
                                          update[i].dict))
                     ELSE update[i]]
        RECURSIVE NotUpdated(_)
        NotUpdated(i) ==
            IF i > Len(base) THEN <<>>
            ELSE IF /\ Mergeable(base[i])
                    /\ base[i].dict[mk] \notin updIds
                    /\ IsFirst(i)
            THEN <<BaseItem(base[i].dict[mk])>> \o NotUpdated(i + 1)
            ELSE NotUpdated(i + 1)
        RECURSIVE NonMergeable(_)
        NonMergeable(i) ==
            IF i > Len(base) THEN <<>>
            ELSE IF ~Mergeable(base[i])
            THEN <<base[i]>> \o NonMergeable(i + 1)
            ELSE NonMergeable(i + 1)
    IN  IF mk = "" THEN update
        ELSE IF ~has_overlap /\ baseIds # {} THEN update
        ELSE merged \o NotUpdated(1) \o NonMergeable(1)

\* PatternRepository._deep_merge(base, update), on the key -> value
\* functions of the two dicts
DeepMerge(base, update) ==
    LET keys == DOMAIN update \ {ReplaceMarker}
        Merged(k) ==
            LET value == update[k]
            IN  IF /\ Is(value, "dict")
                   /\ ReplaceMarker \in DOMAIN value.dict
                   /\ value.dict[ReplaceMarker] = JTrue
                THEN JDict([j \in DOMAIN value.dict \ {ReplaceMarker} |->
                              value.dict[j]])
                ELSE IF /\ k \in DOMAIN base
                        /\ Is(base[k], "dict") /\ Is(value, "dict")
                THEN JDict(DeepMerge(base[k].dict, value.dict))
                ELSE IF /\ k \in DOMAIN base
                        /\ Is(base[k], "list") /\ Is(value, "list")
                THEN JList(MergeArrays(k, base[k].list, value.list))
                ELSE value
    IN  [k \in DOMAIN base \cup keys |->
           IF k \in keys THEN Merged(k) ELSE base[k]]

\* ---- models.py: validation of a dict as a Pattern, and its dump ----
\* The model keeps these fields of a Pattern: id, version, metadata (name,
\* category, status, complexity) and properties.property, a list of
\* properties (id, name) with at least one item.
CategoryType == {"concept", "pattern", "flow"}
StatusType == {"draft", "stable", "deprecated"}
ComplexityType == {"low", "medium", "high"}

\* the characters of the ids used below
Spell(id) ==
    CASE id = "P1" -> <<"P", "1">>
      [] id = "C2" -> <<"C", "2">>
      [] id = "X" -> <<"X">>
      [] OTHER -> <<>>

\* Pattern.validate_pattern_id: re.match(r'^[CPF][0-9]+(\.[0-9]+)?$', v)
MatchesPatternId(q) ==
    LET IsDigits(d) == Len(d) >= 1 /\ \A i \in DOMAIN d : d[i] \in Digits
    IN  /\ Len(q) >= 2
        /\ q[1] \in {"C", "P", "F"}
        /\ LET rest == Tail(q)
               dots == {i \in DOMAIN rest : rest[i] = "."}
           IN  IF dots = {} THEN IsDigits(rest)
               ELSE LET d == CHOOSE i \in dots : \A j \in dots : i <= j
                    IN  /\ IsDigits(SubSeq(rest, 1, d - 1))
                        /\ IsDigits(SubSeq(rest, d + 1, Len(rest)))

\* Pattern(**f) does not raise
ValidPattern(f) ==
    LET HasStr(g, key) == key \in DOMAIN g /\ Is(g[key], "str")
        HasOneOf(g, key, type) == HasStr(g, key) /\ g[key].str \in type
        \* Metadata(**v)
        ValidMetadata(v) ==
            /\ Is(v, "dict")
            /\ HasStr(v.dict, "name")
            /\ HasOneOf(v.dict, "category", CategoryType)
            /\ HasOneOf(v.dict, "status", StatusType)
            /\ \/ "complexity" \notin DOMAIN v.dict
               \/ v.dict["complexity"] = JNull
               \/ HasOneOf(v.dict, "complexity", ComplexityType)
        \* Property(**v)
        ValidProperty(v) ==
            Is(v, "dict") /\ HasStr(v.dict, "id") /\ HasStr(v.dict, "name")
        \* Properties(**v): property is a list with min_length=1
        ValidProperties(v) ==
            /\ Is(v, "dict")
            /\ "property" \in DOMAIN v.dict
            /\ Is(v.dict["property"], "list")
            /\ Len(v.dict["property"].list) >= 1
            /\ \A i \in DOMAIN v.dict["property"].list :
                  ValidProperty(v.dict["property"].list[i])
    IN  /\ HasStr(f, "id")
        /\ MatchesPatternId(Spell(f["id"].str))
        /\ HasStr(f, "version")
        /\ "metadata" \in DOMAIN f /\ ValidMetadata(f["metadata"])
        /\ "properties" \in DOMAIN f /\ ValidProperties(f["properties"])

\* json.loads(Pattern(**f).model_dump_json()): the fields of the model,
\* keys that are not fields dropped, absent optional fields null
DumpPattern(f) ==
    LET meta == f["metadata"].dict
        props == f["properties"].dict["property"].list
    IN  [id |-> f["id"], version |-> f["version"],
         metadata |->
            JDict([name |-> meta["name"], category |-> meta["category"],
                   status |-> meta["status"],
                   complexity |-> IF "complexity" \in DOMAIN meta
                                  THEN meta["complexity"] ELSE JNull]),
         properties |->
            JDict([property |->
                     JList([i \in DOMAIN props |->
                              JDict([id |-> props[i].dict["id"],
                                     name |-> props[i].dict["name"]])])])]

\* ---- database.py: the patterns table ----
\* PatternDB.from_pattern: the columns of the row stored for a pattern (the
\* id column is the key of db)
FromPattern(p) ==
    [version |-> p.version, name |-> p.metadata.dict["name"],
     category |-> p.metadata.dict["category"],
     status |-> p.metadata.dict["status"],
     complexity |-> p.metadata.dict["complexity"], data |-> p]

\* a response: the request it answers (its operation, the id it addresses
\* and what of its body the properties below refer to), the status code by
\* its name in fastapi.status, the detail of an error and the value returned
NoValue == [none |-> TRUE]
Response(op, id, request, status, detail, value) ==
    [op |-> op, s |-> 0,
     result |-> [id |-> id, request |-> request, status |-> status,
                 detail |-> detail, value |-> value]]

\* ---- the requests ----
MaxSeedFiles == 2

PatternIds == {"P1", "C2"}

Prop(id, name) == JDict([id |-> JStr(id), name |-> JStr(name)])

\* a valid pattern, as carried by POST and PUT bodies
PatternBody(id, category, props) ==
    [id |-> JStr(id), version |-> JStr("1.0"),
     metadata |-> JDict([name |-> JStr("n"), category |-> JStr(category),
                         status |-> JStr("draft"), complexity |-> JNull]),
     properties |-> JDict([property |-> JList(props)])]
PatternBodies ==
    {PatternBody(id, c, l) :
        id \in PatternIds, c \in {"concept", "pattern"},
        l \in {<<Prop("a", "x")>>, <<Prop("a", "x"), Prop("b", "x")>>}}

\* bodies of PATCH requests: the status only, a new property only, a stored
\* property renamed, a status outside StatusType, an empty property list, an
\* id that is no pattern id, the metadata replaced by a name alone
PatchBodies ==
    LET Properties(l) == [properties |-> JDict([property |-> JList(l)])]
        Metadata(f) == [metadata |-> JDict(f)]
    IN  {Metadata([status |-> JStr("deprecated")]),
         Properties(<<Prop("c", "x")>>),
         Properties(<<Prop("a", "y")>>),
         Metadata([status |-> JStr("bogus")]),
         Properties(<<>>),
         [id |-> JStr("X")],
         Metadata((ReplaceMarker :> JTrue) @@ [name |-> JStr("n")])}

\* create_pattern(pattern: Pattern) and update_pattern(pattern_id,
\* pattern: Pattern): a body that does not validate as a Pattern (here: an
\* id that is no pattern id, an empty property list) is answered 422 before
\* the handler runs
RejectInvalidBody ==
    \E body \in {PatternBody("X", "concept", <<Prop("a", "x")>>),
                 PatternBody("P1", "concept", <<>>)} :
       /\ ~ValidPattern(body)
       /\ last' = Response("validation", body.id.str, NoValue,
                           "HTTP_422_UNPROCESSABLE_ENTITY", "", NoValue)
       /\ UNCHANGED <<db, docVars, cmVars, conv, merge, tx>>

\* variant: a row already stored under the id is overwritten
RepoCreateOverwrite(rows, pattern) ==
    [raised |-> "none",
     rows |-> (pattern.id.str :> FromPattern(pattern)) @@ rows]

\* PatternRepository.create: the exception raised ("none" if none) and the
\* table afterwards
RepoCreate(rows, pattern) ==
    IF pattern.id.str \in DOMAIN rows
    THEN [raised |-> "ValueError: already exists", rows |-> rows]
    ELSE [raised |-> "none",
          rows |-> (pattern.id.str :> FromPattern(pattern)) @@ rows]

\* POST /patterns: create_pattern
CreatePattern(pattern) ==
    LET r == RepoCreate(db, pattern)
    IN  /\ db' = r.rows
        /\ last' = IF r.raised # "none"
                   THEN Response("create", pattern.id.str, NoValue,
                                 "HTTP_409_CONFLICT", "already exists",
                                 NoValue)
                   ELSE Response("create", pattern.id.str, NoValue,
                                 "HTTP_201_CREATED", "",
                                 DumpPattern(r.rows[pattern.id.str].data))
        /\ UNCHANGED <<docVars, cmVars, conv, merge, tx>>

\* GET /patterns/{pattern_id}: get_pattern
GetPattern(id) ==
    /\ last' = IF id \notin DOMAIN db
               THEN Response("get", id, NoValue, "HTTP_404_NOT_FOUND",
                             "not found", NoValue)
               ELSE Response("get", id, NoValue, "HTTP_200_OK", "",
                             DumpPattern(db[id].data))
    /\ UNCHANGED <<db, docVars, cmVars, conv, merge, tx>>

\* variant: the ids are not compared
RepoUpdateAnyId(rows, id, pattern) ==
    IF id \notin DOMAIN rows
    THEN [raised |-> "none", found |-> FALSE, rows |-> rows]
    ELSE [raised |-> "none", found |-> TRUE,
          rows |-> [rows EXCEPT ![id] = FromPattern(pattern)]]

\* variant: only the stored document is replaced, the columns are left
RepoUpdateDataOnly(rows, id, pattern) ==
    IF pattern.id.str # id
    THEN [raised |-> "ValueError: Pattern ID mismatch", found |-> FALSE,
          rows |-> rows]
    ELSE IF id \notin DOMAIN rows
    THEN [raised |-> "none", found |-> FALSE, rows |-> rows]
    ELSE [raised |-> "none", found |-> TRUE,
          rows |-> [rows EXCEPT ![id].data = pattern]]

\* PatternRepository.update(pattern_id, pattern)
RepoUpdate(rows, id, pattern) ==
    IF pattern.id.str # id
    THEN [raised |-> "ValueError: Pattern ID mismatch", found |-> FALSE,
          rows |-> rows]
    ELSE IF id \notin DOMAIN rows
    THEN [raised |-> "none", found |-> FALSE, rows |-> rows]
    ELSE [raised |-> "none", found |-> TRUE,
          rows |-> [rows EXCEPT ![id] = FromPattern(pattern)]]

\* PUT /patterns/{pattern_id}: update_pattern
UpdatePattern(id, pattern) ==
    LET r == RepoUpdate(db, id, pattern)
    IN  /\ db' = r.rows
        /\ last' = IF r.raised # "none"
                   THEN Response("update", id, pattern.id,
                                 "HTTP_400_BAD_REQUEST",
                                 "Pattern ID mismatch", NoValue)
                   ELSE IF ~r.found
                   THEN Response("update", id, pattern.id,
                                 "HTTP_404_NOT_FOUND", "not found", NoValue)
                   ELSE Response("update", id, pattern.id, "HTTP_200_OK", "",
                                 DumpPattern(r.rows[id].data))
        /\ UNCHANGED <<docVars, cmVars, conv, merge, tx>>

\* variant: the merged document is stored before it is validated
RepoPartialUpdateStoreFirst(rows, id, update) ==
    IF id \notin DOMAIN rows
    THEN [raised |-> "none", found |-> FALSE, rows |-> rows]
    ELSE LET merged == DeepMerge(rows[id].data, update)
         IN  IF ~ValidPattern(merged)
             THEN [raised |-> "ValueError: Invalid partial update data",
                   found |-> TRUE,
                   rows |-> [rows EXCEPT ![id].data = merged]]
             ELSE [raised |-> "none", found |-> TRUE,
                   rows |-> [rows EXCEPT
                               ![id] = FromPattern(DumpPattern(merged))]]

\* variant: only the stored document is replaced, the columns are left
RepoPartialUpdateDataOnly(rows, id, update) ==
    IF id \notin DOMAIN rows
    THEN [raised |-> "none", found |-> FALSE, rows |-> rows]
    ELSE LET merged == DeepMerge(rows[id].data, update)
         IN  IF ~ValidPattern(merged)
             THEN [raised |-> "ValueError: Invalid partial update data",
                   found |-> TRUE, rows |-> rows]
             ELSE [raised |-> "none", found |-> TRUE,
                   rows |-> [rows EXCEPT ![id].data = DumpPattern(merged)]]

\* variant: the merged document is stored without being validated
RepoPartialUpdateUnvalidated(rows, id, update) ==
    IF id \notin DOMAIN rows
    THEN [raised |-> "none", found |-> FALSE, rows |-> rows]
    ELSE [raised |-> "none", found |-> TRUE,
          rows |-> [rows EXCEPT
                      ![id] = FromPattern(
                                 DumpPattern(DeepMerge(rows[id].data,
                                                       update)))]]

\* PatternRepository.partial_update(pattern_id, update_data)
RepoPartialUpdate(rows, id, update) ==
    IF id \notin DOMAIN rows
    THEN [raised |-> "none", found |-> FALSE, rows |-> rows]
    ELSE LET merged == DeepMerge(rows[id].data, update)
         IN  IF ~ValidPattern(merged)
             THEN [raised |-> "ValueError: Invalid partial update data",
                   found |-> TRUE, rows |-> rows]
             ELSE [raised |-> "none", found |-> TRUE,
                   rows |-> [rows EXCEPT
                               ![id] = FromPattern(DumpPattern(merged))]]

\* PATCH /patterns/{pattern_id}: partial_update_pattern
PartialUpdatePattern(id, update) ==
    LET r == RepoPartialUpdate(db, id, update)
    IN  /\ db' = r.rows
        /\ last' = IF ~r.found
                   THEN Response("patch", id, update, "HTTP_404_NOT_FOUND",
                                 "not found", NoValue)
                   ELSE IF r.raised # "none"
                   THEN Response("patch", id, update, "HTTP_400_BAD_REQUEST",
                                 "Invalid partial update data", NoValue)
                   ELSE Response("patch", id, update, "HTTP_200_OK", "",
                                 DumpPattern(r.rows[id].data))
        /\ UNCHANGED <<docVars, cmVars, conv, merge, tx>>

\* variant: a row that is found is reported deleted but stays stored
RepoDeleteKeepsRow(rows, id) ==
    [deleted |-> id \in DOMAIN rows, rows |-> rows]

\* PatternRepository.delete(pattern_id)
RepoDelete(rows, id) ==
    IF id \notin DOMAIN rows
    THEN [deleted |-> FALSE, rows |-> rows]
    ELSE [deleted |-> TRUE, rows |-> [i \in DOMAIN rows \ {id} |-> rows[i]]]

\* DELETE /patterns/{pattern_id}: delete_pattern
DeletePattern(id) ==
    LET r == RepoDelete(db, id)
    IN  /\ db' = r.rows
        /\ last' = IF ~r.deleted
                   THEN Response("delete", id, NoValue, "HTTP_404_NOT_FOUND",
                                 "not found", NoValue)
                   ELSE Response("delete", id, NoValue,
                                 "HTTP_204_NO_CONTENT", "", NoValue)
        /\ UNCHANGED <<docVars, cmVars, conv, merge, tx>>

\* GET /statistics: get_statistics, the report of
\* PatternRepository.get_statistics
GetStatistics ==
    LET CountWhere(column, value) ==
            Cardinality({i \in DOMAIN db : db[i][column] = JStr(value)})
        \* the counts of the values that occur
        CountsBy(column, values) ==
            [v \in {w \in values : CountWhere(column, w) > 0} |->
               CountWhere(column, v)]
    IN  /\ last' = Response("statistics", "", NoValue, "HTTP_200_OK", "",
                      [total_patterns |-> Cardinality(DOMAIN db),
                       by_category |-> CountsBy("category", CategoryType),
                       by_status |-> CountsBy("status", StatusType),
                       by_complexity |->
                          CountsBy("complexity", ComplexityType)])
        /\ UNCHANGED <<db, docVars, cmVars, conv, merge, tx>>

\* GET /patterns: list_patterns, the ids of the patterns of
\* PatternRepository.list(category, status) with the default limit and
\* offset; a filter that is None is not applied
ListPatterns(category, status_filter) ==
    /\ last' = Response("list", "",
                        [category |-> category, status |-> status_filter],
                        "HTTP_200_OK", "",
                        {i \in DOMAIN db :
                            /\ category # JNull => db[i].category = category
                            /\ status_filter # JNull
                                  => db[i].status = status_filter})
    /\ UNCHANGED <<db, docVars, cmVars, conv, merge, tx>>

\* ---- seed_db.py ----
\* XMLPatternParser.parse_file: the Pattern of a file, or None
SeedFiles ==
    {[parsed |-> FALSE],
     [parsed |-> TRUE,
      pattern |-> PatternBody("P1", "concept", <<Prop("a", "x")>>)],
     [parsed |-> TRUE,
      pattern |-> PatternBody("C2", "pattern", <<Prop("a", "x")>>)]}

\* variant: a pattern that is already stored is stored again from the file
RECURSIVE SeedLoopRecreate(_, _, _, _)
SeedLoopRecreate(dir, skip_existing, k, acc) ==
    IF k > Len(dir) THEN acc
    ELSE IF ~dir[k].parsed
    THEN SeedLoopRecreate(dir, skip_existing, k + 1,
                          [acc EXCEPT !.failed = @ + 1])
    ELSE SeedLoopRecreate(dir, skip_existing, k + 1,
            [acc EXCEPT
               !.rows = RepoCreateOverwrite(@, dir[k].pattern).rows,
               !.loaded = @ + 1])

\* the loop of seed_database over the files k ..
RECURSIVE SeedLoop(_, _, _, _)
SeedLoop(dir, skip_existing, k, acc) ==
    IF k > Len(dir) THEN acc
    ELSE IF ~dir[k].parsed
    THEN SeedLoop(dir, skip_existing, k + 1,
                  [acc EXCEPT !.failed = @ + 1])
    ELSE IF skip_existing /\ dir[k].pattern.id.str \in DOMAIN acc.rows
    THEN SeedLoop(dir, skip_existing, k + 1,
                  [acc EXCEPT !.skipped = @ + 1])
    ELSE LET r == RepoCreate(acc.rows, dir[k].pattern)
         IN  IF r.raised # "none"
             THEN SeedLoop(dir, skip_existing, k + 1,
                           [acc EXCEPT !.failed = @ + 1])
             ELSE SeedLoop(dir, skip_existing, k + 1,
                           [acc EXCEPT !.rows = r.rows, !.loaded = @ + 1])

\* seed_database(xml_dir, skip_existing)
SeedDatabase(dir, skip_existing) ==
    LET r == SeedLoop(dir, skip_existing, 1,
                      [rows |-> db, loaded |-> 0, skipped |-> 0,
                       failed |-> 0])
    IN  /\ db' = r.rows
        /\ last' = [op |-> "seed_database", s |-> 0,
                    result |-> [dir |-> dir, skip_existing |-> skip_existing,
                                loaded |-> r.loaded, skipped |-> r.skipped,
                                failed |-> r.failed]]
        /\ UNCHANGED <<docVars, cmVars, conv, merge, tx>>

InitApi ==
    /\ text = <<>>
    /\ doc = NoDoc
    /\ store = [s \in Stores |-> EmptyStore]
    /\ run = [s \in Stores |-> IdleRun]
    /\ deleted = [s \in Stores |-> {}]
    /\ last = Did("init", 0)
    /\ CmIdle
    /\ db = NoPatterns
    /\ conv = NoConversion
    /\ merge = NoMerge
    /\ tx = NoTx

\* the requests of the API, and seeding runs over the sorted XML files of a
\* directory of up to MaxSeedFiles files
NextApi ==
    \/ \E pattern \in PatternBodies : CreatePattern(pattern)
    \/ \E id \in PatternIds : GetPattern(id)
    \/ \E id \in PatternIds, pattern \in PatternBodies :
          UpdatePattern(id, pattern)
    \/ \E id \in PatternIds, update \in PatchBodies :
          PartialUpdatePattern(id, update)
    \/ \E id \in PatternIds : DeletePattern(id)
    \/ RejectInvalidBody
    \/ \E category \in {JNull} \cup {JStr(c) : c \in CategoryType},
          status_filter \in {JNull} \cup {JStr(t) : t \in StatusType} :
          ListPatterns(category, status_filter)
    \/ GetStatistics
    \/ \E n \in 1 .. MaxSeedFiles :
          \E dir \in [1 .. n -> SeedFiles], skip_existing \in BOOLEAN :
             SeedDatabase(dir, skip_existing)

SpecApi == InitApi /\ [][NextApi]_vars

\* ------------------------------------------------------------------------
\* Properties of the pattern API
\* ------------------------------------------------------------------------
\* the step is a request op answered in the next state
Answers(op) == last'.op = op
Stored(id) == id \in DOMAIN db
Without(rows, id) == [i \in DOMAIN rows \ {id} |-> rows[i]]

\* C11: creating a pattern whose id is already stored is answered 409
\* 'already exists', and no stored pattern changes.
C11_DuplicateCreate ==
    [][(Answers("create") /\ Stored(last'.result.id))
          => /\ last'.result.status = "HTTP_409_CONFLICT"
             /\ last'.result.detail = "already exists"
             /\ db' = db]_vars

\* a duplicate create was rejected while another pattern was stored too
C11_Witness ==
    /\ last.op = "create"
    /\ last.result.status = "HTTP_409_CONFLICT"
    /\ DOMAIN db = PatternIds

\* C12: a PUT addressed to an id that is not stored is answered 404 whatever
\* valid pattern the body carries, and stores nothing.
C12_UnknownIdNotFound ==
    [][(Answers("update") /\ ~Stored(last'.result.id))
          => /\ last'.result.status = "HTTP_404_NOT_FOUND"
             /\ db' = db]_vars

C14_Delete ==
    [][/\ (Answers("delete") /\ Stored(last'.result.id))
            => /\ last'.result.status = "HTTP_204_NO_CONTENT"
               /\ db' = Without(db, last'.result.id)
       /\ (Answers("delete") /\ ~Stored(last'.result.id))
            => /\ last'.result.status = "HTTP_404_NOT_FOUND"
               /\ db' = db
       /\ (Answers("get") /\ ~Stored(last'.result.id))
            => last'.result.status = "HTTP_404_NOT_FOUND"
       /\ \A id \in PatternIds :
             (~Stored(id) /\ id \in DOMAIN db')
                => last'.op \in {"create", "seed_database"}]_vars

\* a pattern was deleted while another one stayed stored
C14_Witness ==
    /\ last.op = "delete"
    /\ last.result.status = "HTTP_204_NO_CONTENT"
    /\ db # NoPatterns

\* the property list of a stored document
PropertyList(data) == data.properties.dict["property"].list

\* the ids of the properties a PATCH body mentions
MentionedProperties(update) ==
    IF /\ "properties" \in DOMAIN update
       /\ Is(update.properties, "dict")
       /\ "property" \in DOMAIN update.properties.dict
       /\ Is(update.properties.dict["property"], "list")
    THEN Identifiers(update.properties.dict["property"].list, "id")
    ELSE {}

\* the metadata fields a PATCH body mentions
MentionedMetadata(update) ==
    IF "metadata" \in DOMAIN update /\ Is(update.metadata, "dict")
    THEN DOMAIN update.metadata.dict
    ELSE {}

\* C15: a PATCH that succeeds changes only what its body mentions: the top
\* level fields and the metadata fields it does not mention are kept, every
\* property whose id it does not mention is still in the list (so a body
\* with only a new property adds it), and the other rows are unchanged.
C15_PatchKeepsData ==
    [][(Answers("patch") /\ last'.result.status = "HTTP_200_OK")
          => LET id == last'.result.id
                 update == last'.result.request
                 old == db[id].data
                 new == db'[id].data
             IN  /\ \A k \in {"id", "version"} \ DOMAIN update :
                       new[k] = old[k]
                 /\ \A k \in DOMAIN old.metadata.dict
                               \ MentionedMetadata(update) :
                       new.metadata.dict[k] = old.metadata.dict[k]
                 /\ \A i \in DOMAIN PropertyList(old) :
                       PropertyList(old)[i].dict["id"]
                             \notin MentionedProperties(update)
                          => \E j \in DOMAIN PropertyList(new) :
                                PropertyList(new)[j] = PropertyList(old)[i]
                 /\ Without(db', id) = Without(db, id)]_vars

\* C16: a PATCH whose merged result is not a valid pattern is answered 400
\* 'Invalid partial update data' and the table is exactly as before.
C16_InvalidPatch ==
    [][(/\ Answers("patch")
        /\ Stored(last'.result.id)
        /\ ~ValidPattern(DeepMerge(db[last'.result.id].data,
                                   last'.result.request)))
          => /\ last'.result.status = "HTTP_400_BAD_REQUEST"
             /\ last'.result.detail = "Invalid partial update data"
             /\ db' = db]_vars

\* a PATCH of a stored pattern was rejected as invalid
C16_Witness ==
    /\ last.op = "patch"
    /\ last.result.status = "HTTP_400_BAD_REQUEST"
    /\ Stored(last.result.id)

RECURSIVE SumOf(_)
SumOf(f) ==
    IF DOMAIN f = {} THEN 0
    ELSE LET k == CHOOSE x \in DOMAIN f : TRUE
         IN  f[k] + SumOf([x \in DOMAIN f \ {k} |-> f[x]])

\* the count reported for a value: a value that does not occur has no entry
Reported(counts, v) == IF v \in DOMAIN counts THEN counts[v] ELSE 0

\* the number of stored patterns whose metadata field has the value
StoredWith(field, v) ==
    Cardinality({id \in DOMAIN db :
                    DumpPattern(db[id].data).metadata.dict[field] = JStr(v)})

\* C17: the statistics report has total_patterns equal to the number of
\* stored patterns, each by_category and by_status count equal to the number
\* of stored patterns with that category or status, and the counts of either
\* kind sum to total_patterns.
C17_Statistics ==
    last.op = "statistics"
       => LET report == last.result.value
          IN  /\ report.total_patterns = Cardinality(DOMAIN db)
              /\ \A c \in CategoryType :
                    Reported(report.by_category, c) = StoredWith("category", c)
              /\ \A t \in StatusType :
                    Reported(report.by_status, t) = StoredWith("status", t)
              /\ SumOf(report.by_category) = report.total_patterns
              /\ SumOf(report.by_status) = report.total_patterns

\* statistics were reported over two patterns that differ in category and
\* in status
C17_Witness ==
    /\ last.op = "statistics"
    /\ last.result.value.total_patterns = Cardinality(PatternIds)
    /\ Cardinality(DOMAIN last.result.value.by_category) > 1
    /\ Cardinality(DOMAIN last.result.value.by_status) > 1

\* C20: a seeding run with skip_existing leaves every pattern that is
\* already stored as it is; and when it follows a run with skip_existing
\* over the same directory it changes nothing, loads nothing and skips every
\* pattern the first run loaded or skipped.
C20_SeedIdempotent ==
    [][(Answers("seed_database") /\ last'.result.skip_existing)
          => /\ \A id \in DOMAIN db : id \in DOMAIN db' /\ db'[id] = db[id]
             /\ (/\ last.op = "seed_database"
                 /\ last.result.skip_existing
                 /\ last.result.dir = last'.result.dir)
                   => /\ db' = db
                      /\ last'.result.loaded = 0
                      /\ last'.result.skipped
                            = last.result.loaded + last.result.skipped
                      /\ last'.result.failed = last.result.failed]_vars

\* a run with skip_existing loaded nothing and skipped every file of a
\* directory of patterns, one of which is stored with other content than
\* the file has
C20_Witness ==
    /\ last.op = "seed_database"
    /\ last.result.skip_existing
    /\ last.result.loaded = 0
    /\ last.result.skipped = Len(last.result.dir)
    /\ \E k \in DOMAIN last.result.dir :
          db[last.result.dir[k].pattern.id.str].data
             # last.result.dir[k].pattern

\* ------------------------------------------------------------------------
\* The compact format (compact_format.py)
\* ------------------------------------------------------------------------
\* A Pattern object keeps here: id, version, metadata (name, category,
\* status, complexity), definition (tuple_notation, description), the list
\* properties.property (id, name, formal_spec, description) and dependencies
\* (requires).  A required str is a string; an Optional value is JNull or a
\* JSON value; a MathExpression is [content, format].
MaxProps == 1

MathExpression(content, format) == [content |-> content, format |-> format]

\* "assume latex, strip format unless different"
CompactMath(m) ==
    IF m.format = "latex" THEN JStr(m.content)
    ELSE JDict([content |-> JStr(m.content), fmt |-> JStr(m.format)])

\* expand_math_expr(value)
ExpandMathExpr(v) ==
    IF Is(v, "str") THEN MathExpression(v.str, "latex")
    ELSE MathExpression(v.dict["content"].str,
                        IF "fmt" \in DOMAIN v.dict THEN v.dict["fmt"].str
                        ELSE "latex")

\* pattern_to_compact(pattern)
PatternToCompact(pattern) ==
    LET NoEntries == [k \in {} |-> JNull]
        Entry(present, key, value) ==
            IF present THEN key :> value ELSE NoEntries
        \* the truth value Python gives an Optional[str]
        Truthy(v) == v # JNull /\ v # JStr("")
        \* the entry of compact["props"] for a property
        CompactProperty(prop) ==
            JDict([id |-> JStr(prop.id), n |-> JStr(prop.name),
                   spec |-> CompactMath(prop.formal_spec)]
                  @@ Entry(Truthy(prop.description), "d", prop.description))
        \* the "deps" dict built from a Dependencies object
        deps ==
            Entry(pattern.dependencies.requires # JNull, "req",
                  JList(pattern.dependencies.requires.pattern_ref))
    IN  [id |-> JStr(pattern.id), v |-> JStr(pattern.version),
         name |-> JStr(pattern.metadata.name),
         cat |-> JStr(pattern.metadata.category),
         status |-> JStr(pattern.metadata.status),
         def |-> CompactMath(pattern.definition.tuple_notation),
         props |-> JList([i \in DOMAIN pattern.properties |->
                            CompactProperty(pattern.properties[i])])]
        @@ Entry(Truthy(pattern.metadata.complexity), "cx",
                 pattern.metadata.complexity)
        @@ Entry(Truthy(pattern.definition.description), "desc",
                 pattern.definition.description)
        @@ IF pattern.dependencies = JNull THEN NoEntries
           ELSE Entry(deps # NoEntries, "deps", JDict(deps))

\* compact_to_pattern(compact)
CompactToPattern(compact) ==
    LET Get(f, key) == IF key \in DOMAIN f THEN f[key] ELSE JNull
        \* the Property built from an entry of compact["props"]
        ExpandProperty(prop_data) ==
            [id |-> prop_data.dict["id"].str,
             name |-> prop_data.dict["n"].str,
             formal_spec |-> ExpandMathExpr(prop_data.dict["spec"]),
             description |-> Get(prop_data.dict, "d")]
        \* the Dependencies built from compact["deps"], None without a key
        dependencies ==
            IF "deps" \notin DOMAIN compact THEN JNull
            ELSE IF "req" \notin DOMAIN compact["deps"].dict THEN JNull
            ELSE [requires |->
                    [pattern_ref |-> compact["deps"].dict["req"].list]]
    IN  [id |-> compact["id"].str, version |-> compact["v"].str,
         metadata |-> [name |-> compact["name"].str,
                       category |-> compact["cat"].str,
                       status |-> compact["status"].str,
                       complexity |-> Get(compact, "cx")],
         definition |-> [tuple_notation |-> ExpandMathExpr(compact["def"]),
                         description |-> Get(compact, "desc")],
         properties |-> [i \in DOMAIN compact["props"].list |->
                           ExpandProperty(compact["props"].list[i])],
         dependencies |-> dependencies]

\* the valid patterns given to the converter
CompactPatterns ==
    LET OptionalTexts == {JNull, JStr(""), JStr("d")}
        CompactProperties ==
            [id : {"p"}, name : {"n"},
             formal_spec : {MathExpression("s", "latex")},
             description : OptionalTexts]
    IN  [id : {"P1"}, version : {"1.0"},
         metadata : [name : {"n"}, category : {"pattern"},
                     status : {"draft"}, complexity : {JNull, JStr("low")}],
         definition : [tuple_notation : {MathExpression("t", "latex"),
                                         MathExpression("t", "text")},
                       description : OptionalTexts],
         properties :
            UNION {[1 .. n -> CompactProperties] : n \in 1 .. MaxProps},
         dependencies :
            {JNull, [requires |-> JNull],
             [requires |-> [pattern_ref |-> <<"C2">>]]}]

\* compact = pattern_to_compact(original)
ToCompact ==
    /\ conv.stage = "read"
    /\ conv' = [stage |-> "compact", pattern |-> conv.pattern,
                compact |-> PatternToCompact(conv.pattern)]
    /\ last' = Did("pattern_to_compact", 0)
    /\ UNCHANGED <<docVars, cmVars, db, merge, tx>>

\* restored = compact_to_pattern(compact)
FromCompact ==
    /\ conv.stage = "compact"
    /\ conv' = [stage |-> "restored", pattern |-> conv.pattern,
                compact |-> conv.compact,
                restored |-> CompactToPattern(conv.compact)]
    /\ last' = Did("compact_to_pattern", 0)
    /\ UNCHANGED <<docVars, cmVars, db, merge, tx>>

\* a pattern has been read by the converter
InitCompact ==
    /\ text = <<>>
    /\ doc = NoDoc
    /\ store = [s \in Stores |-> EmptyStore]
    /\ run = [s \in Stores |-> IdleRun]
    /\ deleted = [s \in Stores |-> {}]
    /\ last = Did("init", 0)
    /\ CmIdle
    /\ db = NoPatterns
    /\ conv \in [stage : {"read"}, pattern : CompactPatterns]
    /\ merge = NoMerge
    /\ tx = NoTx

NextCompact ==
    \/ ToCompact
    \/ FromCompact

SpecCompact == InitCompact /\ [][NextCompact]_vars

\* C18: compact_to_pattern(pattern_to_compact(p)) equals p in every field,
\* for every valid pattern p.
C18_CompactRoundTrip ==
    conv.stage = "restored" => conv.restored = conv.pattern

\* C19: for every pattern loaded into the corpus manager, parsing the XML
\* produced by exporting it yields a pattern identical to the original in
\* every field.
C19_XmlRoundTrip ==
    (last.op = "validate_xml_roundtrip" /\ last.result.found)
       => last.result.reconstructed = patterns[cmResult.id]

\* ------------------------------------------------------------------------
\* The merge of keyed lists (_merge_arrays), on the property lists a PATCH
\* can meet
\* ------------------------------------------------------------------------
MaxBaseItems == 3
MaxUpdateItems == 2

\* the stored lists: properties as they are stored (Property does not
\* require the ids of a list to differ); the supplied lists: whole
\* properties and items that name a property and give one field
MergeInputs ==
    LET stored == {Prop(i, n) : i \in {"a", "b"}, n \in {"x", "y"}}
        supplied ==
            {Prop(i, "z") : i \in {"a", "b", "c"}}
               \cup {JDict([id |-> JStr(i), description |-> JStr("d")]) :
                       i \in {"a", "b"}}
    IN  [stage : {"input"}, key : {"property"},
         base : UNION {[1 .. n -> stored] : n \in 1 .. MaxBaseItems},
         update : UNION {[1 .. n -> supplied] : n \in 1 .. MaxUpdateItems}]

\* result[key] = self._merge_arrays(key, result[key], value)
CallMergeArrays ==
    /\ merge.stage = "input"
    /\ merge' = [stage |-> "merged", key |-> merge.key, base |-> merge.base,
                 update |-> merge.update,
                 result |-> MergeArrays(merge.key, merge.base, merge.update)]
    /\ last' = Did("_merge_arrays", 0)
    /\ UNCHANGED <<docVars, cmVars, db, conv, tx>>

InitMerge ==
    /\ text = <<>>
    /\ doc = NoDoc
    /\ store = [s \in Stores |-> EmptyStore]
    /\ run = [s \in Stores |-> IdleRun]
    /\ deleted = [s \in Stores |-> {}]
    /\ last = Did("init", 0)
    /\ CmIdle
    /\ db = NoPatterns
    /\ conv = NoConversion
    /\ merge \in MergeInputs
    /\ tx = NoTx

SpecMerge == InitMerge /\ [][CallMergeArrays]_vars

\* C21: when a PATCH supplies a keyed list and at least one supplied key
\* matches a stored item, each supplied item with a stored match is in the
\* result deep-merged with a stored item of its key, each supplied item
\* without a match is in the result as supplied, and every stored item whose
\* key is not supplied is still in the result; when no supplied key matches,
\* the result is the supplied list.
C21_KeyedMerge ==
    merge.stage = "merged"
       => LET mk == MergeStrategy(merge.key)
              base == merge.base
              update == merge.update
              result == merge.result
              Key(item) == item.dict[mk]
              StoredAs(k) == {j \in DOMAIN base : Key(base[j]) = k}
              Supplied(k) == \E i \in DOMAIN update : Key(update[i]) = k
              overlap == \E i \in DOMAIN update :
                            StoredAs(Key(update[i])) # {}
              In(item) == \E r \in DOMAIN result : result[r] = item
          IN  IF overlap
              THEN /\ \A i \in DOMAIN update :
                         IF StoredAs(Key(update[i])) # {}
                         THEN \E j \in StoredAs(Key(update[i])) :
                                 In(JDict(DeepMerge(base[j].dict,
                                                    update[i].dict)))
                         ELSE In(update[i])
                   /\ \A j \in DOMAIN base :
                         ~Supplied(Key(base[j])) => In(base[j])
              ELSE result = update

NextIdPatch ==
    \/ \E pattern \in PatternBodies : CreatePattern(pattern)
    \/ \E id \in PatternIds : GetPattern(id)
    \/ \E id \in PatternIds, pattern \in PatternBodies :
          UpdatePattern(id, pattern)
    \/ \E id \in PatternIds, other \in PatternIds :
          PartialUpdatePattern(id, [id |-> JStr(other)])
    \/ \E id \in PatternIds : DeletePattern(id)

SpecIdPatch == InitApi /\ [][NextIdPatch]_vars

\* C23: after any sequence of create, PUT, PATCH and DELETE requests the key
\* of every stored row is the id inside its stored pattern, and a get that
\* finds the id returns a pattern with that id; PATCH bodies with an "id"
\* field included.
C23_KeyIsId ==
    /\ \A id \in DOMAIN db : db[id].data.id = JStr(id)
    /\ (last.op = "get" /\ last.result.status = "HTTP_200_OK")
          => last.result.value.id = JStr(last.result.id)

\* C24: after any sequence of create, PUT and PATCH requests the columns
\* version, name, category, status and complexity of every stored row equal
\* the values inside its stored pattern, and a filtered list returns exactly
\* the stored patterns whose own metadata pass the filters.
C24_ColumnsAgree ==
    /\ \A id \in DOMAIN db :
          LET row == db[id]
              meta == row.data.metadata.dict
          IN  /\ row.version = row.data.version
              /\ row.name = meta["name"]
              /\ row.category = meta["category"]
              /\ row.status = meta["status"]
              /\ row.complexity = meta["complexity"]
    /\ last.op = "list"
          => last.result.value
                = {id \in DOMAIN db :
                      LET meta == db[id].data.metadata.dict
                          filter == last.result.request
                      IN  /\ filter.category # JNull
                                => meta["category"] = filter.category
                          /\ filter.status # JNull
                                => meta["status"] = filter.status}

\* a list filtered by status returned a pattern that a PATCH had deprecated,
\* and left out another stored pattern
C24_Witness ==
    /\ last.op = "list"
    /\ last.result.request.status = JStr("deprecated")
    /\ last.result.value # {}
    /\ last.result.value # DOMAIN db

\* ------------------------------------------------------------------------
\* Concurrent create requests (PatternRepository.create in two sessions)
\* ------------------------------------------------------------------------
\* create, up to its check: existing = self.db.query(...).first(); a row
\* that is found raises ValueError, which create_pattern answers with 409
CreateQuery(s, pattern) ==
    /\ tx[s].pc = "idle"
    /\ IF pattern.id.str \in DOMAIN db
       THEN /\ tx' = [tx EXCEPT ![s] = [pc |-> "done", pattern |-> pattern,
                                        status |-> "HTTP_409_CONFLICT"]]
            /\ last' = Response("create", pattern.id.str, NoValue,
                                "HTTP_409_CONFLICT", "already exists",
                                NoValue)
       ELSE /\ tx' = [tx EXCEPT ![s] = [pc |-> "insert",
                                        pattern |-> pattern]]
            /\ last' = Did("query", s)
    /\ UNCHANGED <<db, docVars, cmVars, conv, merge>>

\* create, from self.db.add(db_pattern) and self.db.commit() on: the INSERT
\* of a row whose primary key is already in the table raises IntegrityError,
\* which is no ValueError, so create_pattern lets it through and the request
\* is answered 500
CreateCommit(s) ==
    /\ tx[s].pc = "insert"
    /\ LET pattern == tx[s].pattern
           id == pattern.id.str
       IN  IF id \in DOMAIN db
           THEN /\ tx' = [tx EXCEPT
                            ![s] = [pc |-> "done", pattern |-> pattern,
                                    status |->
                                       "HTTP_500_INTERNAL_SERVER_ERROR"]]
                /\ db' = db
                /\ last' = Response("create", id, NoValue,
                                    "HTTP_500_INTERNAL_SERVER_ERROR",
                                    "IntegrityError", NoValue)
           ELSE /\ tx' = [tx EXCEPT
                            ![s] = [pc |-> "done", pattern |-> pattern,
                                    status |-> "HTTP_201_CREATED"]]
                /\ db' = (id :> FromPattern(pattern)) @@ db
                /\ last' = Response("create", id, NoValue,
                                    "HTTP_201_CREATED", "",
                                    DumpPattern(pattern))
    /\ UNCHANGED <<docVars, cmVars, conv, merge>>

\* one create request in each session, their steps interleaved
NextRace ==
    \/ \E s \in DOMAIN tx, pattern \in PatternBodies :
          CreateQuery(s, pattern)
    \/ \E s \in DOMAIN tx : CreateCommit(s)

SpecRace == InitApi /\ [][NextRace]_vars

\* C25: a create request that completes, however its check and its insert
\* were interleaved with those of another create, is answered as in the
\* sequential case: 409 'already exists' with the table unchanged when the
\* id is stored at that moment, otherwise 201 with the pattern stored; so of
\* two concurrent creates of one id exactly one succeeds, the other gets 409
\* and the table holds one pattern for the id.
C25_ConcurrentCreate ==
    [][\A s \in DOMAIN tx :
          (tx[s].pc # "done" /\ tx'[s].pc = "done")
             => LET pattern == tx'[s].pattern
                    id == pattern.id.str
                IN  IF id \in DOMAIN db
                    THEN /\ tx'[s].status = "HTTP_409_CONFLICT"
                         /\ last'.result.detail = "already exists"
                         /\ db' = db
                    ELSE /\ tx'[s].status = "HTTP_201_CREATED"
                         /\ db' = (id :> FromPattern(pattern)) @@ db]_vars

\* ------------------------------------------------------------------------
\* Gaps in the numbering (CorpusManager.find_missing_patterns)
\* ------------------------------------------------------------------------
\* The keys of self.patterns are here the sequences of their characters:
\* find_missing_patterns reads their first character, looks for a "." and
\* converts the rest with int().
MaxLoaded == 3

\* variant: the numbers of a type are looked for from 2 on
FindMissingFromTwo(keys) ==
    LET Value(c) == CHOOSE k \in 0 .. 9 : DigitChar(k) = c
        RECURSIVE ToInt(_)
        ToInt(q) == IF q = <<>> THEN 0
                    ELSE 10 * ToInt(SubSeq(q, 1, Len(q) - 1))
                            + Value(q[Len(q)])
        Numbers(T) == {ToInt(Tail(p)) :
                         p \in {k \in keys : /\ k # <<>> /\ k[1] = T
                                             /\ \A i \in DOMAIN k :
                                                   k[i] # "."}}
        Highest(T) == CHOOSE n \in Numbers(T) : \A o \in Numbers(T) : o <= n
        RECURSIVE Gaps(_, _)
        Gaps(T, i) ==
            IF Numbers(T) = {} \/ i > Highest(T) THEN <<>>
            ELSE IF i \notin Numbers(T)
            THEN <<(<<T>> \o ZeroPad(i, 1))>> \o Gaps(T, i + 1)
            ELSE Gaps(T, i + 1)
    IN  [T \in {U \in {"P", "C"} : Gaps(U, 2) # <<>>} |-> Gaps(T, 2)]

\* find_missing_patterns over the keys of self.patterns: for the types P and
\* C the ids f'{T}{i}', i in range(1, max + 1), whose number is not among
\* the int(p[1:]) of the keys p that start with T and hold no "."; a type
\* with an empty list is left out of the result, F is never looked at
FindMissing(keys) ==
    LET Value(c) == CHOOSE k \in 0 .. 9 : DigitChar(k) = c
        RECURSIVE ToInt(_)
        ToInt(q) == IF q = <<>> THEN 0
                    ELSE 10 * ToInt(SubSeq(q, 1, Len(q) - 1))
                            + Value(q[Len(q)])
        Numbers(T) == {ToInt(Tail(p)) :
                         p \in {k \in keys : /\ k # <<>> /\ k[1] = T
                                             /\ \A i \in DOMAIN k :
                                                   k[i] # "."}}
        Highest(T) == CHOOSE n \in Numbers(T) : \A o \in Numbers(T) : o <= n
        RECURSIVE Gaps(_, _)
        Gaps(T, i) ==
            IF Numbers(T) = {} \/ i > Highest(T) THEN <<>>
            ELSE IF i \notin Numbers(T)
            THEN <<(<<T>> \o ZeroPad(i, 1))>> \o Gaps(T, i + 1)
            ELSE Gaps(T, i + 1)
    IN  [T \in {U \in {"P", "C"} : Gaps(U, 1) # <<>>} |-> Gaps(T, 1)]

\* CorpusManager.find_missing_patterns()
FindMissingPatterns ==
    /\ last' = [op |-> "find_missing_patterns", s |-> 0,
                result |-> FindMissing(DOMAIN patterns)]
    /\ cmResult' = [op |-> "find_missing_patterns", id |-> "", path |-> "",
                    raised |-> "none", warnings |-> {}, replaced |-> {}]
    /\ UNCHANGED <<xmlDir, patterns, outFiles, origin>>
    /\ UNCHANGED <<docVars, apiVars>>

\* a CorpusManager that has loaded up to MaxLoaded patterns, their ids among
\* P1, P3, P02, P1.5, C1, C2 and F2
InitGaps ==
    /\ text = <<>>
    /\ doc = NoDoc
    /\ store = [s \in Stores |-> EmptyStore]
    /\ run = [s \in Stores |-> IdleRun]
    /\ deleted = [s \in Stores |-> {}]
    /\ last = Did("init", 0)
    /\ xmlDir = <<>>
    /\ \E loaded \in SUBSET {<<"P", "1">>, <<"P", "3">>, <<"P", "0", "2">>,
                             <<"P", "1", ".", "5">>, <<"C", "1">>,
                             <<"C", "2">>, <<"F", "2">>} :
          /\ Cardinality(loaded) <= MaxLoaded
          /\ patterns = [id \in loaded |->
                           [id |-> id, version |-> "1.0", name |-> "a",
                            category |-> "pattern", properties |-> <<>>]]
          /\ origin = [id \in loaded |-> 1]
    /\ outFiles = NoPatterns
    /\ cmResult = NoCall
    /\ db = NoPatterns
    /\ conv = NoConversion
    /\ merge = NoMerge
    /\ tx = NoTx

SpecGaps == InitGaps /\ [][FindMissingPatterns]_vars

\* C26 as stated: for the types P and C the result lists exactly the ids T1
\* .. Tmax that are not loaded, Tmax the largest loaded whole-number id of
\* the type; it has no entry for F and none for a type without such an id.
C26_MissingIds ==
    last.op = "find_missing_patterns"
       => LET result == last.result
              Whole(T) == {k \in DOMAIN patterns :
                              /\ k[1] = T
                              /\ \A i \in DOMAIN k : k[i] # "."}
              UpToMax(T) ==
                 {n \in 1 .. 9 : \E k \in Whole(T) :
                     \E m \in n .. 9 : Tail(k) \in {ZeroPad(m, 1),
                                                    <<"0">> \o ZeroPad(m, 1)}}
              NotLoaded(T) == {<<T>> \o ZeroPad(n, 1) : n \in UpToMax(T)}
                                 \ DOMAIN patterns
              Listed(T) == IF T \in DOMAIN result
                           THEN {result[T][i] : i \in DOMAIN result[T]}
                           ELSE {}
          IN  /\ DOMAIN result \subseteq {"P", "C"}
              /\ \A T \in {"P", "C"} :
                    /\ Listed(T) = NotLoaded(T)
                    /\ T \in DOMAIN result <=> NotLoaded(T) # {}

\* C26, amended: the ids are compared by their numbers.  For the types P and
\* C the result lists, in ascending order and once each, exactly the ids
\* T<n> with 1 <= n <= Tmax such that no loaded whole-number id of the type
\* has the number n (so P02 counts as P2); it has no entry for F and none
\* for a type without such a number.
C26_MissingNumbers ==
    last.op = "find_missing_patterns"
       => LET result == last.result
              Whole(T) == {k \in DOMAIN patterns :
                              /\ k[1] = T
                              /\ \A i \in DOMAIN k : k[i] # "."}
              Number(k) == CHOOSE m \in 0 .. 9 :
                              Tail(k) \in {ZeroPad(m, 1),
                                           <<"0">> \o ZeroPad(m, 1)}
              Loaded(T) == {Number(k) : k \in Whole(T)}
              Missing(T) == {n \in 1 .. 9 :
                                /\ n \notin Loaded(T)
                                /\ \E m \in Loaded(T) : n < m}
          IN  /\ DOMAIN result \subseteq {"P", "C"}
              /\ \A T \in {"P", "C"} :
                    /\ T \in DOMAIN result <=> Missing(T) # {}
                    /\ T \in DOMAIN result
                          => /\ {result[T][i] : i \in DOMAIN result[T]}
                                   = {<<T>> \o ZeroPad(n, 1) : n \in Missing(T)}
                             /\ \A i, j \in DOMAIN result[T] :
                                   i < j => Number(result[T][i])
                                               < Number(result[T][j])

\* gaps were reported for P but not for C, with a decimal P id and an F id
\* loaded: P1 and P2 are missing below P3
C26_Witness ==
    /\ last.op = "find_missing_patterns"
    /\ DOMAIN last.result = {"P"}
    /\ last.result["P"] = << <<"P", "1">>, <<"P", "2">> >>
    /\ DOMAIN patterns \cap {<<"P", "1", ".", "5">>, <<"F", "2">>} # {}

====
